---- MODULE Spec2Model ----
(***************************************************************************)
(* Model of mortgage.py: the closed-form amortization functions _p, _I,   *)
(* _f, _X, _total and the Mortgage class (constructor, summary,           *)
(* compute_summary, _compute_total_PMI_payment).                          *)
(*                                                                         *)
(* Numbers.  The program computes in numpy float64.  A value is modelled  *)
(* as a pair <<n, d>> with d >= 0: for d > 0 the exact rational n/d in    *)
(* lowest terms, <<0,0>> is NaN, <<1,0>> is +inf and <<-1,0>> is -inf.    *)
(* Division by zero therefore yields what numpy yields (NaN for 0/0, an   *)
(* infinity otherwise) and NaN propagates and compares false as in IEEE   *)
(* arithmetic.  The rounding of finite results to 53 bits is not          *)
(* modelled: finite arithmetic is exact.                                  *)
(***************************************************************************)
EXTENDS Integers, Sequences, FiniteSets, TLC

VARIABLES
    \* ---- the Mortgage object (attributes of self) ----
    total_price, num_years, num_months, interest_rate, down_payment_fraction,
    down_payment, PMI_rate, principal,
    monthly_PMI_payment, total_PMI_payment, df_summary, summary_table,
    \* ---- the caller of the Mortgage object ----
    lastOp,      \* the last operation called on the object
    returned,    \* what the last summary() call returned (None before one)
    changed,     \* a parameter was assigned since the last summary() call
    nChanges,    \* number of parameter assignments so far
    \* ---- one amortization schedule, evaluated month by month ----
    loanP, loanN, loanAlpha, ps, xs, Is, balance

mvars == <<total_price, num_years, num_months, interest_rate,
           down_payment_fraction, down_payment, PMI_rate, principal,
           monthly_PMI_payment, total_PMI_payment, df_summary, summary_table,
           lastOp, returned, changed, nChanges>>
avars == <<loanP, loanN, loanAlpha, ps, xs, Is, balance>>
vars == <<mvars, avars>>

\* Python's None, where a value or a table is expected
None == <<>>
\* no operation was called: there is no Mortgage object
NoOp == "none"

\* ------------------------------------------------------------------ bounds
\* largest term (in months) of a schedule of AmortSpec
MaxN == 4
\* largest number of parameter assignments made on one Mortgage object
MaxChanges == 2

\* ------------------------------------------------------------ float values
Abs(n) == IF n < 0 THEN -n ELSE n

Sign(n) == IF n < 0 THEN -1 ELSE IF n > 0 THEN 1 ELSE 0

RECURSIVE GCD(_, _)
GCD(a, b) == IF b = 0 THEN a ELSE GCD(b, a % b)

\* the value n/d (d of either sign, possibly 0) in canonical form
Norm(n, d) ==
    IF d = 0 THEN <<Sign(n), 0>>
    ELSE LET g == GCD(Abs(n), Abs(d))
             s == IF d < 0 THEN -1 ELSE 1
         IN  <<s * (n \div g), s * (d \div g)>>

Num(n) == <<n, 1>>
NaN == <<0, 0>>
IsNaN(x) == x = NaN
IsFinite(x) == x[2] > 0

Neg(x) == <<-x[1], x[2]>>

Recip(x) == IF x[1] < 0 THEN <<-x[2], -x[1]>> ELSE <<x[2], x[1]>>

\* x * y
Mul(x, y) ==
    IF IsFinite(x) /\ IsFinite(y)
    THEN LET g1 == GCD(Abs(x[1]), y[2])
             g2 == GCD(Abs(y[1]), x[2])
         IN  <<(x[1] \div g1) * (y[1] \div g2), (x[2] \div g2) * (y[2] \div g1)>>
    ELSE Norm(x[1] * y[1], x[2] * y[2])

\* x / y ; 0/0 is NaN and a nonzero value over 0 is an infinity
Div(x, y) == Mul(x, Recip(y))

\* x + y
Add(x, y) ==
    IF IsNaN(x) \/ IsNaN(y) THEN NaN
    ELSE IF ~IsFinite(x) /\ ~IsFinite(y) THEN (IF x = y THEN x ELSE NaN)
    ELSE IF ~IsFinite(x) THEN x
    ELSE IF ~IsFinite(y) THEN y
    ELSE LET g == GCD(x[2], y[2])
         IN  Norm(x[1] * (y[2] \div g) + y[1] * (x[2] \div g), (x[2] \div g) * y[2])

\* x - y
Sub(x, y) == Add(x, Neg(y))

\* x < y ; false when either is NaN
Less(x, y) ==
    IF IsNaN(x) \/ IsNaN(y) THEN FALSE
    ELSE IF ~IsFinite(x) /\ ~IsFinite(y) THEN x[1] < y[1]
    ELSE x[1] * y[2] < y[1] * x[2]

\* x > y
Greater(x, y) == Less(y, x)

\* np.power(x, n) for an integer n >= 0
RECURSIVE Pow(_, _)
Pow(x, n) == IF n = 0 THEN Num(1) ELSE Mul(Pow(x, n - 1), x)

\* np.round(x, 2): to two decimals, halves to the even neighbour
Round2(x) ==
    IF ~IsFinite(x) THEN x
    ELSE LET y == Mul(x, Num(100))
             q == y[1] \div y[2]
             r == y[1] - q * y[2]
             n == IF 2 * r < y[2] THEN q
                  ELSE IF 2 * r > y[2] THEN q + 1
                  ELSE IF q % 2 = 0 THEN q ELSE q + 1
         IN  Norm(n, 100)

\* -------------------------------------------------- amortization functions
\* _p with the subtraction replaced by an addition
_p_plus(k, P, N, alpha) ==
    LET A == Mul(P, Pow(Add(Num(1), alpha), k))
    IN  Add(A, Div(Mul(Mul(P, Pow(Add(Num(1), alpha), N)),
                       Sub(Pow(Add(Num(1), alpha), k), Num(1))),
                   Sub(Pow(Add(Num(1), alpha), N), Num(1))))

\* _p with the "- 1" of the numerator dropped
_p_no_minus_one(k, P, N, alpha) ==
    LET A == Mul(P, Pow(Add(Num(1), alpha), k))
    IN  Sub(A, Div(Mul(Mul(P, Pow(Add(Num(1), alpha), N)),
                       Pow(Add(Num(1), alpha), k)),
                   Sub(Pow(Add(Num(1), alpha), N), Num(1))))

\* outstanding principal at step k
_p(k, P, N, alpha) ==
    LET A == Mul(P, Pow(Add(Num(1), alpha), k))
    IN  Sub(A, Div(Mul(Mul(P, Pow(Add(Num(1), alpha), N)),
                       Sub(Pow(Add(Num(1), alpha), k), Num(1))),
                   Sub(Pow(Add(Num(1), alpha), N), Num(1))))

\* interest payment at step k
_I(k, P, N, alpha) == Mul(alpha, _p(k, P, N, alpha))

\* _f without the factor (1 + alpha)^N
_f_no_growth(P, N, alpha) ==
    Div(Mul(alpha, P), Sub(Pow(Add(Num(1), alpha), N), Num(1)))

\* fixed monthly payment
_f(P, N, alpha) ==
    Div(Mul(Mul(alpha, Pow(Add(Num(1), alpha), N)), P),
        Sub(Pow(Add(Num(1), alpha), N), Num(1)))

\* _X charging the interest of the following month
_X_next_month(k, P, N, alpha) ==
    Sub(_f(P, N, alpha), Mul(alpha, _p(k + 1, P, N, alpha)))

\* amount paid toward principal at step k
_X(k, P, N, alpha) ==
    Sub(_f(P, N, alpha), Mul(alpha, _p(k, P, N, alpha)))

\* total repaid over the term
_total(P, N, alpha) == Mul(Num(N), _f(P, N, alpha))

\* ------------------------------------------------ one schedule (AmortSpec)
\* principals (0 included: the functions take any P >= 0), terms and
\* positive monthly rates the schedules are drawn from
PrincipalSet == {Num(0), Num(1), <<15, 2>>, Num(10)}
TermSet == 1 .. MaxN
AlphaSet == {<<1, 4>>, <<1, 3>>, <<1, 2>>, Num(1), Num(2)}

\* one step of the amortization recurrence: a month's interest is added to
\* the balance b and the payment is taken off
NextBalance(b, payment, alpha) == Sub(Mul(b, Add(Num(1), alpha)), payment)

\* no Mortgage object exists in a run of AmortSpec
NoMortgage ==
    /\ total_price = None /\ num_years = 0 /\ num_months = 0
    /\ interest_rate = None /\ down_payment_fraction = None
    /\ down_payment = None /\ PMI_rate = None /\ principal = None
    /\ monthly_PMI_payment = None /\ total_PMI_payment = None
    /\ df_summary = None /\ summary_table = None
    /\ lastOp = NoOp /\ returned = None /\ changed = FALSE /\ nChanges = 0

\* a loan (P, N, alpha) with its balance before the first payment
AmortInit ==
    /\ NoMortgage
    /\ loanP \in PrincipalSet
    /\ loanN \in TermSet
    /\ loanAlpha \in AlphaSet
    /\ ps = <<_p(0, loanP, loanN, loanAlpha)>>
    /\ xs = <<>>
    /\ Is = <<>>
    /\ balance = loanP

\* month k = Len(xs): its interest and principal payments and the closed-form
\* balance after it are evaluated; the iterative balance takes one payment
Pay ==
    /\ loanP # None
    /\ Len(xs) < loanN
    /\ LET k == Len(xs)
       IN  /\ Is' = Append(Is, _I(k, loanP, loanN, loanAlpha))
           /\ xs' = Append(xs, _X(k, loanP, loanN, loanAlpha))
           /\ ps' = Append(ps, _p(k + 1, loanP, loanN, loanAlpha))
           /\ balance' = NextBalance(balance, _f(loanP, loanN, loanAlpha), loanAlpha)
    /\ UNCHANGED <<loanP, loanN, loanAlpha>>
    /\ UNCHANGED mvars

AmortNext == Pay

AmortSpec == AmortInit /\ [][AmortNext]_vars

\* ---- C1: for a valid loan with alpha > 0 and every month k in [0, N), the
\* interest payment _I(k) plus the principal payment _X(k) equals the fixed
\* monthly payment _f.
InterestPlusPrincipalIsPayment ==
    \A i \in 1 .. Len(xs) : Add(Is[i], xs[i]) = _f(loanP, loanN, loanAlpha)

InterestPlusPrincipalWitness ==
    /\ Len(xs) = loanN /\ loanN >= 3 /\ loanP = <<15, 2>> /\ loanAlpha = <<1, 3>>
    /\ Is[1] # Is[3]

\* ---- C2: for alpha > 0 the outstanding principal _p(0) equals P and _p(N)
\* equals 0: the loan is paid off exactly at the end of the term.
StartsAtPEndsAtZero ==
    /\ ps[1] = loanP
    /\ Len(ps) = loanN + 1 => ps[loanN + 1] = Num(0)

StartsAtPEndsAtZeroWitness ==
    /\ Len(ps) = loanN + 1 /\ loanN >= 3 /\ loanP = Num(10)
    /\ ps[loanN] # Num(0)

\* ---- C3: the closed form _p agrees with the step-by-step process: the
\* iterative balance that starts at P and takes one payment _f per month
\* equals _p(k) after every step, and _p(k+1) = _p(k) * (1 + alpha) - _f.
ClosedFormIsRecurrence ==
    /\ balance = ps[Len(ps)]
    /\ \A i \in 1 .. Len(ps) - 1 :
          ps[i + 1] = NextBalance(ps[i], _f(loanP, loanN, loanAlpha), loanAlpha)

ClosedFormIsRecurrenceWitness ==
    /\ Len(ps) = loanN + 1 /\ loanN >= 3 /\ loanP = Num(10) /\ loanAlpha = <<1, 4>>
    /\ balance = Num(0)

\* ---- C4 as stated: for alpha > 0 and every valid (P, N), P = 0 included,
\* _p(k+1) < _p(k) for every k in [0, N).
StrictlyDecreasing ==
    \A i \in 1 .. Len(ps) - 1 : Less(ps[i + 1], ps[i])

\* ---- C4 amended: for alpha > 0, N > 0 and P > 0, _p(k+1) < _p(k) for every
\* k in [0, N); for P = 0 the outstanding principal is 0 at every k.
StrictlyDecreasingForPositiveP ==
    /\ Greater(loanP, Num(0)) => \A i \in 1 .. Len(ps) - 1 : Less(ps[i + 1], ps[i])
    /\ loanP = Num(0) => \A i \in 1 .. Len(ps) : ps[i] = Num(0)

StrictlyDecreasingWitness ==
    /\ Len(ps) = loanN + 1 /\ loanN >= 3 /\ Greater(loanP, Num(0))
    /\ Less(ps[3], ps[2]) /\ Less(ps[2], ps[1])

\* ----------------------------------------------------------- class Mortgage
\* Values the constructor and the parameter assignments are given.  The
\* rates are annual: 12 is a monthly rate alpha = 1 and 0 is alpha = 0.  With
\* num_months = 12 the exact value of (1 + alpha)^N * ((1 + alpha)^k - 1) * P
\* stays within TLC's 32-bit integers only for alpha = 1 and a one-year term;
\* num_years is assigned other values afterwards (num_months then stays 12).
PriceSet == {Num(100), Num(200)}
YearsSet == {1}
NewYearsSet == {1, 2}
RateSet == {Num(0), Num(12)}
DownSet == {<<1, 10>>, <<1, 5>>}
PMISet == {<<1, 100>>, <<1, 50>>}

\* self.tax_rate = 1.22e-2
tax_rate == <<61, 5000>>

\* the value of row `item` of a summary frame
loc(df, item) == LET i == CHOOSE j \in 1 .. Len(df) : df[j][1] = item
                 IN  df[i][2]

\* the frame wrapped in a Styler: the data are kept, display formats are added
_style(df) == <<"Styler", df, <<"${:,.0f}", "{:,.2f}", "{:.1%}">>, "font-weight:bold">>

\* the sum of a list of values; np.sum of the empty list is 0.0
RECURSIVE np_sum(_)
np_sum(xs_) == IF xs_ = <<>> THEN Num(0) ELSE Add(np_sum(Tail(xs_)), Head(xs_))

\* the monthly PMI payment charged also at a down payment of exactly 20%
monthly_PMI_at_twenty(dpf, pmi_rate, P) ==
    IF ~Greater(dpf, <<1, 5>>) THEN Div(Mul(pmi_rate, P), Num(12)) ELSE Num(0)

\* compute_summary: the monthly PMI payment
monthly_PMI(dpf, pmi_rate, P) ==
    IF Less(dpf, <<1, 5>>) THEN Div(Mul(pmi_rate, P), Num(12)) ELSE Num(0)

\* the total PMI payment with the months counted against 80% of the price
total_PMI_of_price(monthly, price, P, N, rate) ==
    LET alpha == Div(rate, Num(12))
        ps_ == [i \in 1 .. N |-> _p(i - 1, P, N, alpha)]
        charged == SelectSeq(ps_, LAMBDA b : Greater(b, Mul(<<4, 5>>, price)))
    IN  np_sum([i \in 1 .. Len(charged) |-> monthly])

\* the sum of the monthly PMI payments of the months whose outstanding
\* principal is above 80% of the principal
_compute_total_PMI_payment(monthly, price, P, N, rate) ==
    LET alpha == Div(rate, Num(12))
        ps_ == [i \in 1 .. N |-> _p(i - 1, P, N, alpha)]
        charged == SelectSeq(ps_, LAMBDA b : Greater(b, Mul(<<4, 5>>, P)))
    IN  np_sum([i \in 1 .. Len(charged) |-> monthly])

\* the grand total without the PMI payments
grand_total_no_PMI(total_loan_repayment, total_tax, dp, total_PMI) ==
    Add(Add(total_loan_repayment, total_tax), dp)

\* compute_summary: the grand total
grand_total(total_loan_repayment, total_tax, dp, total_PMI) ==
    Add(Add(Add(total_loan_repayment, total_tax), dp), total_PMI)

\* compute_summary: the rows (item, value) of the summary frame, from the
\* attributes of self
DataFrame(tp, ny, N, r, dpf, dp, pmi, P, monthly, total_PMI) ==
    LET alpha == Div(r, Num(12))
        total_tax == Mul(Mul(tax_rate, tp), Num(ny))
        monthly_tax == Div(Mul(tax_rate, tp), Num(12))
        total_loan_repayment == _total(P, N, alpha)
        grand == grand_total(total_loan_repayment, total_tax, dp, total_PMI)
        total_interest == Sub(total_loan_repayment, P)
        f == _f(P, N, alpha)
    IN  << <<"Down payment fraction", dpf>>,
           <<"Interest Rate", r>>,
           <<"PMI rate", pmi>>,
           <<"Total price", tp>>,
           <<"Down payment", dp>>,
           <<"Principal loan", P>>,
           <<"Interest to principal ratio", Round2(Div(total_interest, P))>>,
           <<"monthly PMI Insurance", monthly>>,
           <<"monthly principal + interest", f>>,
           <<"monthly payment", Add(f, monthly)>>,
           <<"monthly payment + tax (approx)", Add(Add(f, monthly), monthly_tax)>>,
           <<"Total tax paid", total_tax>>,
           <<"Total loan payment", total_loan_repayment>>,
           <<"Total interest paid", total_interest>>,
           <<"Total PMI paid", total_PMI>>,
           <<"Total cost (no tax)", Add(Add(total_loan_repayment, dp), total_PMI)>>,
           <<"Grand total", grand>> >>

\* no schedule is evaluated in a run of Spec
NoSchedule ==
    /\ loanP = None /\ loanN = 0 /\ loanAlpha = None
    /\ ps = <<>> /\ xs = <<>> /\ Is = <<>> /\ balance = None

\* Mortgage(total_price, num_years, interest_rate, down_payment_fraction, PMI_rate)
Init ==
    /\ NoSchedule
    /\ total_price \in PriceSet
    /\ num_years \in YearsSet
    /\ num_months = num_years * 12
    /\ interest_rate \in RateSet
    /\ down_payment_fraction \in DownSet
    /\ down_payment = Mul(down_payment_fraction, total_price)
    /\ PMI_rate \in PMISet
    /\ principal = Sub(total_price, down_payment)
    /\ monthly_PMI_payment = monthly_PMI(down_payment_fraction, PMI_rate, principal)
    /\ total_PMI_payment =
           _compute_total_PMI_payment(monthly_PMI_payment, total_price, principal,
                                      num_months, interest_rate)
    /\ df_summary = DataFrame(total_price, num_years, num_months, interest_rate,
                              down_payment_fraction, down_payment, PMI_rate,
                              principal, monthly_PMI_payment, total_PMI_payment)
    /\ summary_table = _style(df_summary)
    /\ lastOp = "__init__"
    /\ returned = None
    /\ changed = FALSE
    /\ nChanges = 0

\* the body of compute_summary: the two PMI attributes, the frame and its
\* styled table are assigned, each from the attributes assigned before it
ComputeSummaryBody ==
    /\ monthly_PMI_payment' = monthly_PMI(down_payment_fraction, PMI_rate, principal)
    /\ total_PMI_payment' =
           _compute_total_PMI_payment(monthly_PMI_payment', total_price, principal,
                                      num_months, interest_rate)
    /\ df_summary' = DataFrame(total_price, num_years, num_months, interest_rate,
                               down_payment_fraction, down_payment, PMI_rate,
                               principal, monthly_PMI_payment', total_PMI_payment')
    /\ summary_table' = _style(df_summary')

\* m.compute_summary()
compute_summary ==
    /\ lastOp # NoOp
    /\ ComputeSummaryBody
    /\ lastOp' = "compute_summary"
    /\ UNCHANGED <<total_price, num_years, num_months, interest_rate,
                   down_payment_fraction, down_payment, PMI_rate, principal,
                   returned, changed, nChanges>>
    /\ UNCHANGED avars

\* m.summary(): the table is computed only when `not self.summary_table`,
\* that is when it is None (a Styler defines neither __bool__ nor __len__
\* and is always true); the table is returned
summary ==
    /\ lastOp # NoOp
    /\ IF summary_table = None
       THEN ComputeSummaryBody
       ELSE UNCHANGED <<monthly_PMI_payment, total_PMI_payment, df_summary,
                        summary_table>>
    /\ returned' = summary_table'
    /\ lastOp' = "summary"
    /\ changed' = FALSE
    /\ UNCHANGED <<total_price, num_years, num_months, interest_rate,
                   down_payment_fraction, down_payment, PMI_rate, principal,
                   nChanges>>
    /\ UNCHANGED avars

\* what every assignment of a parameter leaves alone: the attributes derived
\* in the constructor and everything compute_summary assigned
Assigned ==
    /\ lastOp # NoOp
    /\ nChanges < MaxChanges
    /\ nChanges' = nChanges + 1
    /\ lastOp' = "set"
    /\ changed' = TRUE
    /\ UNCHANGED <<num_months, down_payment, principal, monthly_PMI_payment,
                   total_PMI_payment, df_summary, summary_table, returned>>
    /\ UNCHANGED avars

\* m.total_price = v
set_total_price ==
    /\ \E v \in PriceSet \ {total_price} : total_price' = v
    /\ Assigned
    /\ UNCHANGED <<num_years, interest_rate, down_payment_fraction, PMI_rate>>

\* m.num_years = v
set_num_years ==
    /\ \E v \in NewYearsSet \ {num_years} : num_years' = v
    /\ Assigned
    /\ UNCHANGED <<total_price, interest_rate, down_payment_fraction, PMI_rate>>

\* m.interest_rate = v
set_interest_rate ==
    /\ \E v \in RateSet \ {interest_rate} : interest_rate' = v
    /\ Assigned
    /\ UNCHANGED <<total_price, num_years, down_payment_fraction, PMI_rate>>

\* m.down_payment_fraction = v
set_down_payment_fraction ==
    /\ \E v \in DownSet \ {down_payment_fraction} : down_payment_fraction' = v
    /\ Assigned
    /\ UNCHANGED <<total_price, num_years, interest_rate, PMI_rate>>

\* m.PMI_rate = v
set_PMI_rate ==
    /\ \E v \in PMISet \ {PMI_rate} : PMI_rate' = v
    /\ Assigned
    /\ UNCHANGED <<total_price, num_years, interest_rate, down_payment_fraction>>

Next ==
    \/ compute_summary
    \/ summary
    \/ set_total_price
    \/ set_num_years
    \/ set_interest_rate
    \/ set_down_payment_fraction
    \/ set_PMI_rate

Spec == Init /\ [][Next]_vars

\* ------------------------------------------------------------------ claims
\* the summary was built by the last operation, from the attributes as they are
Built == lastOp \in {"__init__", "compute_summary"}

\* ---- C5: at a monthly rate of 0 the fixed monthly payment is P/N (straight
\* line) and no NaN or infinity: the summary of a Mortgage with interest rate
\* 0 shows principal / num_months as its monthly principal + interest.
ZeroRateIsStraightLine ==
    (Built /\ interest_rate = Num(0)) =>
        /\ _f(principal, num_months, Div(interest_rate, Num(12)))
              = Div(principal, Num(num_months))
        /\ loc(df_summary, "monthly principal + interest")
              = Div(principal, Num(num_months))

\* the summary frame echoes the attributes it was built from
EchoesAttributes ==
    /\ loc(df_summary, "Down payment fraction") = down_payment_fraction
    /\ loc(df_summary, "Interest Rate") = interest_rate
    /\ loc(df_summary, "PMI rate") = PMI_rate
    /\ loc(df_summary, "Total price") = total_price
    /\ loc(df_summary, "Down payment") = down_payment
    /\ loc(df_summary, "Principal loan") = principal

\* ---- C6: a Mortgage with a down payment fraction >= 0.20 has a monthly and
\* a total insurance payment of 0; with a fraction < 0.20 its monthly
\* insurance payment is PMI_rate * principal / 12.  Stated of every summary,
\* on the parameters it was built from, which are the attributes of the
\* object whenever the summary was just built.
InsuranceOnlyBelowTwentyPercent ==
    /\ Built => EchoesAttributes
    /\ loc(df_summary, "monthly PMI Insurance") = monthly_PMI_payment
    /\ loc(df_summary, "Total PMI paid") = total_PMI_payment
    /\ IF Less(loc(df_summary, "Down payment fraction"), <<1, 5>>)
       THEN monthly_PMI_payment
               = Div(Mul(loc(df_summary, "PMI rate"),
                         loc(df_summary, "Principal loan")), Num(12))
       ELSE monthly_PMI_payment = Num(0) /\ total_PMI_payment = Num(0)

InsuranceWitness ==
    /\ lastOp = "compute_summary"
    /\ down_payment_fraction = <<1, 5>>
    /\ down_payment = Mul(<<1, 10>>, total_price)
    /\ monthly_PMI_payment = Num(0)
    /\ total_PMI_payment = Num(0)

\* month k's outstanding principal, at the interest rate the summary was built
\* with, is above 80% of the principal
AboveThreshold(k) ==
    Greater(_p(k, principal, num_months,
               Div(loc(df_summary, "Interest Rate"), Num(12))),
            Mul(<<4, 5>>, principal))

\* ---- C7: the total insurance payment is the monthly insurance payment
\* times the number of months k in [0, num_months) whose outstanding principal
\* is above 0.8 * principal (of the principal, not of the price); the months
\* counted are the months before the balance first is at or below that
\* threshold, and no later month is charged.
TotalInsuranceCountsMonthsAboveThreshold ==
    LET counted == {k \in 0 .. num_months - 1 : AboveThreshold(k)}
    IN  /\ Built => EchoesAttributes
        /\ total_PMI_payment
              = Mul(monthly_PMI_payment, Num(Cardinality(counted)))
        /\ \A k \in 0 .. num_months - 1 :
              k \in counted <=> \A j \in 0 .. k : j \in counted

TotalInsuranceWitness ==
    /\ Built
    /\ Greater(monthly_PMI_payment, Num(0))
    /\ Greater(total_PMI_payment, monthly_PMI_payment)
    /\ Less(total_PMI_payment, Mul(Num(num_months), monthly_PMI_payment))
    /\ Greater(Mul(<<4, 5>>, total_price), principal)

\* the derived attributes are those the constructor derives from the
\* parameters as they are now
DerivedFromCurrent ==
    /\ num_months = num_years * 12
    /\ down_payment = Mul(down_payment_fraction, total_price)
    /\ principal = Sub(total_price, down_payment)

\* ---- C8: after any sequence of parameter changes interleaved with
\* summary() and compute_summary(), the record summary() returns is derived
\* in full from the current parameters: not the record of earlier values, and
\* no mix of new parameters with a principal, down payment or number of
\* months derived from old ones.
SummaryIsOfCurrentParameters ==
    lastOp = "summary" =>
        /\ DerivedFromCurrent
        /\ returned =
              _style(DataFrame(total_price, num_years, num_months, interest_rate,
                               down_payment_fraction, down_payment, PMI_rate,
                               principal,
                               monthly_PMI(down_payment_fraction, PMI_rate, principal),
                               _compute_total_PMI_payment(
                                   monthly_PMI(down_payment_fraction, PMI_rate, principal),
                                   total_price, principal, num_months, interest_rate)))

\* ---- C9: two summary() calls with no parameter change in between return
\* identical records, whether or not the table is computed again before the
\* second one returns.
SummaryTwiceIsIdentical ==
    [][(lastOp' = "summary" /\ returned # None /\ ~changed)
          => returned' = returned]_vars

====
